---------------------------- MODULE Spec2Model ----------------------------
(***************************************************************************)
(* Model of src/src/App.tsx: the App component's four pieces of state, the *)
(* input's onChange handler, and handleDownload split at its two awaits    *)
(* (await fetch, await response.json()).  Every synchronous segment of the *)
(* handler is one atomic action: the setState calls of one segment are     *)
(* batched into one render.                                                *)
(*                                                                         *)
(* Text that the code inspects character by character (the url) is a       *)
(* sequence of one-character strings.  A value that may be null/undefined  *)
(* is a sequence of length 0 (absent) or 1 (present).                      *)
(***************************************************************************)
EXTENDS Integers, Sequences

\* ------------------------------------------------------------------ bounds
MaxLen == 2
MaxRequests == 3

\* ------------------------------------------------------------ option values
Null == <<>>
Some(x) == <<x>>

\* JavaScript truthiness of an optional string: undefined, null and "" are falsy.
Truthy(opt) == IF opt = Null THEN FALSE ELSE opt[1] # ""

\* ------------------------------------------------------------------- text
Chars == {" ", "a", "/"}
Whitespace == {" "}

Urls == UNION {[1..n -> Chars] : n \in 0..MaxLen}

\* String.prototype.trim: strip leading and trailing whitespace.
RECURSIVE trimStart(_)
trimStart(s) ==
  IF s # <<>> /\ Head(s) \in Whitespace THEN trimStart(Tail(s)) ELSE s

RECURSIVE trimEnd(_)
trimEnd(s) ==
  IF s # <<>> /\ s[Len(s)] \in Whitespace
    THEN trimEnd(SubSeq(s, 1, Len(s) - 1))
    ELSE s

\* Mutant: the emptiness test without the trim, `if (!url)`.
noTrim(s) == s

trim(s) == trimEnd(trimStart(s))

\* encodeURIComponent: unreserved characters pass, the others become %XX.
encodeChar(c) ==
  CASE c = " " -> <<"%", "2", "0">>
    [] c = "/" -> <<"%", "2", "F">>
    [] OTHER   -> <<c>>

RECURSIVE encodeURIComponent(_)
encodeURIComponent(s) ==
  IF s = <<>> THEN <<>> ELSE encodeChar(Head(s)) \o encodeURIComponent(Tail(s))

\* The request line: `${API_ENDPOINT}?url=${encodeURIComponent(url.trim())}`.
API_ENDPOINT == "https://www.tikwm.com/api/"
requestFor(u) == [endpoint |-> API_ENDPOINT, url |-> encodeURIComponent(trim(u))]

\* --------------------------------------------------------------- messages
\* Mutant: another wording of the validation message.
shortEmptyMessage == "Please paste a link."

EMPTY_INPUT_MESSAGE == "Please paste a TikTok link."
CONTACT_MESSAGE == "Failed to contact the download service. Please try again."
UNABLE_MESSAGE == "Unable to fetch the video. Make sure the link is public."
UNEXPECTED_MESSAGE == "Unexpected error. Please try again later."

\* ------------------------------------------------- the environment's values
DownloadState == {"idle", "loading", "success", "error"}

\* TikTokResponse["data"]: play, title, author.nickname, cover.  play may be
\* missing or empty in a body that reports a failure.
Plays == {Null, Some(""), Some("https://cdn/x.mp4"), Some("https://cdn/y.mp4")}
Titles == {"", "T"}
DataRecords ==
  [play : Plays, title : Titles, author : [nickname : {"user"}],
   cover : {"https://cdn/c.jpg"}]

\* TikTokResponse: code, msg, data?.  msg may be missing or empty.
Codes == {0, 1}
Msgs == {Null, Some(""), Some("Video not found")}
Payloads ==
  [code : Codes, msg : Msgs, data : {Null} \cup {Some(d) : d \in DataRecords}]

\* What a rejected promise carries: an Error with the engine's message
\* (fetch rejects with a TypeError, response.json() with a SyntaxError; the
\* engines' messages are non-empty), or a value that is not an Error.
FetchErrors ==
  {[isError |-> TRUE, message |-> "Failed to fetch"],
   [isError |-> TRUE, message |-> "Load failed"],
   [isError |-> FALSE, message |-> ""]}
JsonErrors ==
  {[isError |-> TRUE, message |-> "Unexpected token < in JSON at position 0"]}

\* A body is either text that does not parse (response.json() rejects) or a
\* payload.
Bodies ==
  {[parses |-> FALSE, err |-> e, payload |-> Null] : e \in JsonErrors}
  \cup {[parses |-> TRUE, err |-> Null, payload |-> Some(p)] : p \in Payloads}

\* ------------------------------------------------------------------ state
VARIABLES
  url,        \* useState("")           : the input's text
  status,     \* useState("idle")       : DownloadState
  error,      \* useState(null)         : Null or Some(message)
  videoData,  \* useState(null)         : Null or Some(data record)
  inflight,   \* the handleDownload calls suspended at an await
  fetchCalls  \* the number of fetch() calls issued so far

vars == <<url, status, error, videoData, inflight, fetchCalls>>

Init ==
  /\ url = <<>>
  /\ status = "idle"
  /\ error = Null
  /\ videoData = Null
  /\ inflight = <<>>
  /\ fetchCalls = 0

\* Mutant: the controls never disabled.
formNeverDisabled == FALSE

\* const isLoading = status === "loading"; it disables the input and the button.
isLoading == status = "loading"

RemoveAt(s, i) == SubSeq(s, 1, i - 1) \o SubSeq(s, i + 1, Len(s))

\* ---------------------------------------------------------------- actions
\* Mutant: typing also resets the panel, setStatus("idle").
setUrlResetsStatus(v) ==
  /\ ~isLoading
  /\ url' = v
  /\ status' = "idle"
  /\ UNCHANGED <<error, videoData, inflight, fetchCalls>>

\* onChange={(event) => setUrl(event.target.value)}, on an enabled input.
setUrl(v) ==
  /\ ~isLoading
  /\ url' = v
  /\ UNCHANGED <<status, error, videoData, inflight, fetchCalls>>

\* Mutant: the validation branch without its setError call.
handleDownloadEmptyNoMessage ==
  /\ ~isLoading
  /\ trim(url) = <<>>
  /\ status' = "error"
  /\ UNCHANGED <<url, error, videoData, inflight, fetchCalls>>

\* handleDownload, the branch `if (!url.trim())`.
handleDownloadEmpty ==
  /\ ~isLoading
  /\ trim(url) = <<>>
  /\ error' = Some(EMPTY_INPUT_MESSAGE)
  /\ status' = "error"
  /\ UNCHANGED <<url, videoData, inflight, fetchCalls>>

\* Mutant: the submission without its setVideoData(null) call.
handleDownloadFetchKeepsData ==
  /\ ~isLoading
  /\ trim(url) # <<>>
  /\ fetchCalls < MaxRequests
  /\ status' = "loading"
  /\ error' = Null
  /\ fetchCalls' = fetchCalls + 1
  /\ inflight' = Append(inflight,
                   [pc |-> "fetch", request |-> requestFor(url), body |-> Null])
  /\ UNCHANGED <<url, videoData>>

\* Mutant: the submission without its setError(null) call.
handleDownloadFetchKeepsError ==
  /\ ~isLoading
  /\ trim(url) # <<>>
  /\ fetchCalls < MaxRequests
  /\ status' = "loading"
  /\ videoData' = Null
  /\ fetchCalls' = fetchCalls + 1
  /\ inflight' = Append(inflight,
                   [pc |-> "fetch", request |-> requestFor(url), body |-> Null])
  /\ UNCHANGED <<url, error>>

\* Mutant: the submit button left enabled while loading.
handleDownloadFetchUnguarded ==
  /\ trim(url) # <<>>
  /\ fetchCalls < MaxRequests
  /\ status' = "loading"
  /\ error' = Null
  /\ videoData' = Null
  /\ fetchCalls' = fetchCalls + 1
  /\ inflight' = Append(inflight,
                   [pc |-> "fetch", request |-> requestFor(url), body |-> Null])
  /\ UNCHANGED url

\* handleDownload with a non-empty trimmed url, up to `await fetch(...)`.
handleDownloadFetch ==
  /\ ~isLoading
  /\ trim(url) # <<>>
  /\ fetchCalls < MaxRequests
  /\ status' = "loading"
  /\ error' = Null
  /\ videoData' = Null
  /\ fetchCalls' = fetchCalls + 1
  /\ inflight' = Append(inflight,
                   [pc |-> "fetch", request |-> requestFor(url), body |-> Null])
  /\ UNCHANGED url

\* Mutant: the catch block shows one fixed message whatever was thrown.
catchMessageFixed(err) == CONTACT_MESSAGE

\* The catch block: setError(err instanceof Error ? err.message : ...); setStatus("error").
catchMessage(err) == IF err.isError THEN err.message ELSE UNEXPECTED_MESSAGE

\* Mutant: the catch block without its setStatus("error") call.
catchKeepsStatus(i, err) ==
  /\ error' = Some(catchMessage(err))
  /\ inflight' = RemoveAt(inflight, i)
  /\ UNCHANGED <<url, status, videoData, fetchCalls>>

\* Mutant: the catch block issues the request again before giving up.
catchRetries(i, err) ==
  IF fetchCalls < MaxRequests
    THEN /\ fetchCalls' = fetchCalls + 1
         /\ inflight' = [inflight EXCEPT ![i] = [@ EXCEPT !.pc = "fetch", !.body = Null]]
         /\ UNCHANGED <<url, status, error, videoData>>
    ELSE /\ error' = Some(catchMessage(err))
         /\ status' = "error"
         /\ inflight' = RemoveAt(inflight, i)
         /\ UNCHANGED <<url, videoData, fetchCalls>>

catch(i, err) ==
  /\ error' = Some(catchMessage(err))
  /\ status' = "error"
  /\ inflight' = RemoveAt(inflight, i)
  /\ UNCHANGED <<url, videoData, fetchCalls>>

\* fetch() rejects: control resumes in the catch block with the rejection.
fetchRejected(i, err) ==
  /\ inflight[i].pc = "fetch"
  /\ catch(i, err)

\* fetch() resolves with !response.ok: the handler throws its own Error.
fetchNotOk(i) ==
  /\ inflight[i].pc = "fetch"
  /\ catch(i, [isError |-> TRUE, message |-> CONTACT_MESSAGE])

\* fetch() resolves with response.ok: the handler awaits response.json().
fetchOk(i, b) ==
  /\ inflight[i].pc = "fetch"
  /\ inflight' = [inflight EXCEPT ![i] = [@ EXCEPT !.pc = "json", !.body = Some(b)]]
  /\ UNCHANGED <<url, status, error, videoData, fetchCalls>>

\* response.json() rejects: control resumes in the catch block.
jsonRejected(i) ==
  /\ inflight[i].pc = "json"
  /\ ~inflight[i].body[1].parses
  /\ catch(i, inflight[i].body[1].err)

\* Mutant: the code test inverted, `payload.code === 0 || ...`.
isFailureCodeInverted(payload) ==
  IF payload.code = 0 THEN TRUE
  ELSE IF payload.data = Null THEN TRUE
  ELSE ~Truthy(payload.data[1].play)

\* Mutant: the code test left out, `!payload.data?.play` alone.
isFailureIgnoresCode(payload) ==
  IF payload.data = Null THEN TRUE ELSE ~Truthy(payload.data[1].play)

\* Mutant: the media URL not examined, `!payload.data` alone.
isFailureIgnoresPlay(payload) ==
  IF payload.code # 0 THEN TRUE ELSE payload.data = Null

\* payload.code !== 0 || !payload.data?.play
isFailure(payload) ==
  IF payload.code # 0 THEN TRUE
  ELSE IF payload.data = Null THEN TRUE
  ELSE ~Truthy(payload.data[1].play)

\* throw new Error(payload.msg || "Unable to fetch ...")
failureError(payload) ==
  [isError |-> TRUE,
   message |-> IF Truthy(payload.msg) THEN payload.msg[1] ELSE UNABLE_MESSAGE]

\* response.json() resolves with a payload that reports a failure.
jsonFailure(i) ==
  /\ inflight[i].pc = "json"
  /\ inflight[i].body[1].parses
  /\ isFailure(inflight[i].body[1].payload[1])
  /\ catch(i, failureError(inflight[i].body[1].payload[1]))

\* response.json() resolves with a usable payload: setVideoData; setStatus("success").
jsonSuccess(i) ==
  /\ inflight[i].pc = "json"
  /\ inflight[i].body[1].parses
  /\ ~isFailure(inflight[i].body[1].payload[1])
  /\ videoData' = inflight[i].body[1].payload[1].data
  /\ status' = "success"
  /\ inflight' = RemoveAt(inflight, i)
  /\ UNCHANGED <<url, error, fetchCalls>>

Submit == handleDownloadEmpty \/ handleDownloadFetch

Settle ==
  \E i \in 1..Len(inflight) :
    \/ \E err \in FetchErrors : fetchRejected(i, err)
    \/ fetchNotOk(i)
    \/ \E b \in Bodies : fetchOk(i, b)
    \/ jsonRejected(i)
    \/ jsonFailure(i)
    \/ jsonSuccess(i)

Next ==
  \/ \E v \in Urls : setUrl(v)
  \/ handleDownloadEmpty
  \/ handleDownloadFetch
  \/ \E i \in 1..Len(inflight) : \E err \in FetchErrors : fetchRejected(i, err)
  \/ \E i \in 1..Len(inflight) : fetchNotOk(i)
  \/ \E i \in 1..Len(inflight) : \E b \in Bodies : fetchOk(i, b)
  \/ \E i \in 1..Len(inflight) : jsonRejected(i)
  \/ \E i \in 1..Len(inflight) : jsonFailure(i)
  \/ \E i \in 1..Len(inflight) : jsonSuccess(i)

Spec == Init /\ [][Next]_vars

\* The network call eventually resolves or rejects, and each continuation runs.
FairSpec == Spec /\ WF_vars(Settle)

\* ================================================================= claims
\* A text that is empty or consists of whitespace only.
IsBlank(s) == \A k \in 1..Len(s) : s[k] \in Whitespace

\* The payload that response.json() resolves with for in-flight call i.
payloadOf(i) == inflight[i].body[1].payload[1]

\* In-flight call i is awaiting response.json() and the body parses.
AwaitsPayload(i) ==
  IF inflight[i].pc = "json" THEN inflight[i].body[1].parses ELSE FALSE

\* response.json() of in-flight call i settles in this step.
JsonSettles(i) == jsonRejected(i) \/ jsonFailure(i) \/ jsonSuccess(i)

\* C1: a submission whose input is empty or whitespace-only, made from idle,
\* success or error, ends with status = error, and the number of requests
\* issued (and the set of calls in flight) is unchanged by it.
C1_BlankSubmitErrorsWithoutRequest ==
  [][(Submit /\ IsBlank(url) /\ status \in {"idle", "success", "error"})
       => (status' = "error" /\ fetchCalls' = fetchCalls /\ inflight' = inflight)]_vars

C1_Witness ==
  /\ status = "error"
  /\ url # <<>> /\ IsBlank(url)
  /\ error = Some("Please paste a TikTok link.")
  /\ fetchCalls = 0

\* C2 (as claimed): after a submission with empty input the error message is
\* exactly "Please paste a link.".
C2_Original ==
  [][(Submit /\ IsBlank(url)) => error' = Some("Please paste a link.")]_vars

\* C2 (amended): after a submission with empty input the error message is
\* exactly "Please paste a TikTok link.".
C2_EmptyMessage ==
  [][(Submit /\ IsBlank(url)) => error' = Some("Please paste a TikTok link.")]_vars

C2_Witness ==
  /\ status = "error"
  /\ url = <<>>
  /\ error = Some("Please paste a TikTok link.")

\* C3 (as claimed): a rejected network call and a non-OK response both end
\* with status = error and the one generic connectivity message.
C3_Original ==
  [][\A i \in 1..Len(inflight) :
       (fetchNotOk(i) \/ \E err \in FetchErrors : fetchRejected(i, err))
         => (status' = "error"
             /\ error' = Some("Failed to contact the download service. Please try again."))]_vars

\* C3 (amended): a non-OK response ends with status = error and the generic
\* connectivity message; a rejected network call ends with status = error and
\* the rejection's own message when the rejection is an Error, and with
\* "Unexpected error. Please try again later." when it is not.
C3_TransportFailure ==
  [][\A i \in 1..Len(inflight) :
       /\ fetchNotOk(i)
            => (status' = "error"
                /\ error' = Some("Failed to contact the download service. Please try again."))
       /\ \A err \in FetchErrors :
            fetchRejected(i, err)
              => (status' = "error"
                  /\ error' = Some(IF err.isError THEN err.message
                                   ELSE "Unexpected error. Please try again later."))]_vars

C3_Witness ==
  /\ status = "error"
  /\ error = Some("Failed to fetch")
  /\ inflight = <<>>

\* C4: when response.json() resolves with code = 0 and a populated data.play,
\* the UI reaches status = success and the stored record's play, title,
\* author.nickname and cover are the response's.
C4_SuccessStoresRecord ==
  [][\A i \in 1..Len(inflight) :
       (IF AwaitsPayload(i)
          THEN /\ payloadOf(i).code = 0
               /\ payloadOf(i).data # Null
               /\ Truthy(payloadOf(i).data[1].play)
               /\ JsonSettles(i)
          ELSE FALSE)
         => /\ status' = "success"
            /\ videoData' # Null
            /\ videoData'[1].play = payloadOf(i).data[1].play
            /\ videoData'[1].title = payloadOf(i).data[1].title
            /\ videoData'[1].author.nickname = payloadOf(i).data[1].author.nickname
            /\ videoData'[1].cover = payloadOf(i).data[1].cover]_vars

C4_Witness ==
  /\ status = "success"
  /\ videoData = Some([play |-> Some("https://cdn/x.mp4"), title |-> "T",
                       author |-> [nickname |-> "user"],
                       cover |-> "https://cdn/c.jpg"])

\* C5: when response.json() resolves with code # 0, the UI reaches status =
\* error with the response's msg when msg is non-empty and with the "unable
\* to fetch" fallback when msg is empty or absent, also when data.play is
\* populated.
C5_ApiFailureMessage ==
  [][\A i \in 1..Len(inflight) :
       (IF AwaitsPayload(i)
          THEN payloadOf(i).code # 0 /\ JsonSettles(i)
          ELSE FALSE)
         => /\ status' = "error"
            /\ error' = IF Truthy(payloadOf(i).msg)
                           THEN payloadOf(i).msg
                           ELSE Some("Unable to fetch the video. Make sure the link is public.")]_vars

C5_Witness ==
  /\ status = "error"
  /\ error = Some("Video not found")

\* C6: when response.json() resolves with a payload, the UI reaches status =
\* success exactly when code = 0 and data.play is present and non-empty;
\* every other payload ends with status = error, and the message is msg
\* whenever the payload supplies one (a non-empty msg).
C6_SuccessIffCodeZeroAndPlay ==
  [][\A i \in 1..Len(inflight) :
       (IF AwaitsPayload(i) THEN JsonSettles(i) ELSE FALSE)
         => LET p == payloadOf(i)
                usable == IF p.code = 0 /\ p.data # Null
                            THEN Truthy(p.data[1].play) ELSE FALSE
            IN  /\ status' \in {"success", "error"}
                /\ (status' = "success") <=> usable
                /\ (~usable /\ Truthy(p.msg)) => error' = p.msg]_vars

C6_Witness ==
  /\ status = "error"
  /\ error = Some("Unable to fetch the video. Make sure the link is public.")
  /\ fetchCalls >= 1

\* C7: in every reachable state the status is one of idle, loading, success,
\* error; status = error comes with a non-null, non-empty error message;
\* status = success comes with a non-null record whose play URL is non-empty.
C7_StateCarriesItsData ==
  /\ status \in DownloadState
  /\ status = "error" => Truthy(error)
  /\ status = "success" => (IF videoData = Null THEN FALSE
                             ELSE Truthy(videoData[1].play))

C7_Witness ==
  /\ status = "success"
  /\ videoData # Null
  /\ fetchCalls = MaxRequests

\* C8: under FairSpec (every pending network call eventually settles),
\* status = loading always leads to success or error, whatever the failure;
\* and in success or error a further submission is accepted (up to the
\* model's bound on the number of requests).
C8_AlwaysInteractiveAgain ==
  /\ (status = "loading") ~> (status \in {"success", "error"})
  /\ []((status \in {"success", "error"} /\ fetchCalls < MaxRequests)
          => ENABLED Submit)

C8_Witness ==
  /\ status = "error"
  /\ error = Some("Unexpected token < in JSON at position 0")
  /\ fetchCalls < MaxRequests

\* C9 (as claimed): every change of status is a submission taking idle, error
\* or success to loading, or the in-flight call's outcome taking loading to
\* success or to error.
C9_Original ==
  [][status' # status
       => \/ (status \in {"idle", "error", "success"} /\ status' = "loading")
          \/ (status = "loading" /\ status' \in {"success", "error"})]_vars

\* C9 (amended): every change of status is a submission with non-empty input
\* taking idle, error or success to loading (one request issued), the
\* in-flight call's outcome taking loading to success or to error, or a
\* submission with empty or whitespace-only input taking idle or success to
\* error (no request issued).
C9_StatusTransitions ==
  [][status' # status
       => \/ /\ status \in {"idle", "error", "success"} /\ status' = "loading"
             /\ ~IsBlank(url)
             /\ fetchCalls' = fetchCalls + 1
          \/ /\ status = "loading" /\ status' \in {"success", "error"}
             /\ Len(inflight') = Len(inflight) - 1
          \/ /\ status \in {"idle", "success"} /\ status' = "error"
             /\ IsBlank(url)
             /\ fetchCalls' = fetchCalls /\ inflight' = inflight]_vars

C9_Witness ==
  /\ status = "error"
  /\ fetchCalls = 0
  /\ inflight = <<>>

\* C10 (as claimed): after any submission made from the success state, with
\* empty or non-empty input, the stored record is null.
C10_Original ==
  [][(Submit /\ status = "success") => videoData' = Null]_vars

\* C10 (amended): a submission with non-empty input clears the stored record,
\* and the record then stays null until a successful response stores that
\* response's data wholesale; a submission with empty input leaves the stored
\* record as it was.
C10_RecordLifecycle ==
  [][/\ (Submit /\ ~IsBlank(url)) => videoData' = Null
     /\ (Submit /\ IsBlank(url)) => videoData' = videoData
     /\ (videoData' # videoData /\ videoData' # Null)
          => /\ status = "loading" /\ status' = "success"
             /\ \E i \in 1..Len(inflight) :
                  IF AwaitsPayload(i)
                    THEN videoData' = payloadOf(i).data
                    ELSE FALSE]_vars

C10_Witness ==
  /\ status = "error"
  /\ error = Some("Please paste a TikTok link.")
  /\ videoData # Null

\* C11: a submission with non-empty input moves status to loading and clears
\* the prior error message and the prior result record; in every reachable
\* state with status = loading both are null.
C11_LoadingIsClean ==
  [][/\ (Submit /\ ~IsBlank(url))
          => (status' = "loading" /\ error' = Null /\ videoData' = Null)
     /\ status' = "loading" => (error' = Null /\ videoData' = Null)]_vars

C11_Witness ==
  /\ status = "loading"
  /\ fetchCalls >= 2
  /\ error = Null
  /\ videoData = Null

\* C12: each submission with non-empty input issues exactly one request, and
\* no other step issues one: the count of requests changes only by such a
\* submission, by exactly one, and a step that ends in status = error (or
\* any other outcome of the call) leaves the count unchanged.  Hence the
\* count always equals the number of accepted non-empty submissions.
C12_OneRequestPerSubmission ==
  [][/\ (Submit /\ ~IsBlank(url))
          => /\ fetchCalls' = fetchCalls + 1
             /\ Len(inflight') = Len(inflight) + 1
             /\ inflight'[Len(inflight')].pc = "fetch"
     /\ fetchCalls' # fetchCalls => (Submit /\ ~IsBlank(url))
     /\ Len(inflight') > Len(inflight) => (Submit /\ ~IsBlank(url))
     /\ (status = "loading" /\ status' = "error")
          => (fetchCalls' = fetchCalls /\ Len(inflight') < Len(inflight))]_vars

C12_Witness ==
  /\ status = "error"
  /\ fetchCalls = 2
  /\ inflight = <<>>
  /\ error = Some("Failed to contact the download service. Please try again.")

\* C13 (as claimed): a user can submit again while a request is in flight, so
\* that both requests run concurrently: whenever a request is in flight and
\* the input is non-empty, a further submission is accepted.
C13_Original ==
  (inflight # <<>> /\ ~IsBlank(url) /\ fetchCalls < MaxRequests)
    => ENABLED handleDownloadFetch

\* C13 (amended): a submission is accepted only when no request is in flight
\* (the form is disabled while status = loading), so two requests never run
\* concurrently; when the one request in flight settles, nothing is left in
\* flight and the UI state is that request's outcome, success or error.
C13_SubmissionsNeverOverlap ==
  [][/\ Submit => inflight = <<>>
     /\ Len(inflight') <= 1
     /\ Len(inflight') < Len(inflight)
          => (inflight' = <<>> /\ status' \in {"success", "error"})]_vars

C13_Witness ==
  /\ Len(inflight) = 1
  /\ inflight[1].pc = "json"
  /\ fetchCalls = 2
  /\ status = "loading"

\* C14: the input and the submit button are disabled exactly while status =
\* loading: then no submission and no change of the input text is accepted,
\* and otherwise both are (a submission up to the model's bound on the number
\* of requests); at most one request is in flight, and one is in flight
\* exactly when status = loading.
C14_DisabledWhileLoading ==
  /\ status = "loading"
       => (~ENABLED Submit /\ ~ENABLED (\E v \in Urls : setUrl(v)))
  /\ status # "loading"
       => /\ ENABLED (\E v \in Urls : setUrl(v))
          /\ fetchCalls < MaxRequests => ENABLED Submit
  /\ Len(inflight) <= 1
  /\ (inflight # <<>>) <=> (status = "loading")

C14_Witness ==
  /\ status = "loading"
  /\ Len(inflight) = 1
  /\ inflight[1].pc = "fetch"
  /\ ~ENABLED Submit

\* C15 (as claimed): the error message and the result record are never both
\* set: status = success implies a null error message, and status = error
\* implies a null result record.
C15_Original ==
  /\ status = "success" => error = Null
  /\ status = "error" => videoData = Null

\* C15 (amended): status = success implies a null error message; the error
\* message and the result record are both set only in status = error with
\* the empty-input message, where the record of an earlier success is still
\* stored; with any other error message the result record is null.
C15_ErrorAndRecordExclusive ==
  /\ status = "success" => error = Null
  /\ (error # Null /\ videoData # Null)
       => (status = "error" /\ error = Some("Please paste a TikTok link."))

C15_Witness ==
  /\ status = "error"
  /\ videoData # Null
  /\ error # Null
  /\ fetchCalls = 1
=============================================================================
